---- MODULE Spec2Model ----
(***************************************************************************)
(* Elephant Tracker: the usage-tracking HTTP service of XMPPVOX.           *)
(*                                                                         *)
(* The model follows handlers.go (the four request handlers), the store    *)
(* operations they call (InsertInstallation, InsertSession, CloseSession,  *)
(* PingSession: the MongoDB conditional updates) and the record            *)
(* constructors NewInstallation and NewSession.                            *)
(*                                                                         *)
(* A request is served by one goroutine.  A handler validates the form,    *)
(* builds the record or the update (reading the clock with bson.Now() and, *)
(* for a new session, drawing a fresh ObjectId), and then performs one     *)
(* round trip to the store.  The store applies an insert or a              *)
(* find-and-modify atomically, so a request is modelled in two steps: the  *)
(* handler up to the store call (XxxHandler) and the store's atomic        *)
(* operation together with the response the handler writes from its       *)
(* result (XxxReply).  Requests of different goroutines interleave at      *)
(* these two points.                                                       *)
(*                                                                         *)
(* Abstractions: a time is a natural number of clock ticks, ZeroTime being *)
(* Go's zero time.Time; the wall clock never runs backwards; an ObjectId   *)
(* is one byte wide (two hex digits) instead of twelve; a store operation  *)
(* that fails with a connectivity error changes nothing in the store.      *)
(***************************************************************************)
EXTENDS Integers, Sequences, FiniteSets, TLC

VARIABLES
    installations,   \* collection "installations": machine_id -> Installation
    sessions,        \* collection "sessions": ObjectId -> Session
    now,             \* the wall clock, as read by bson.Now()
    objectIdCounter, \* the counter behind bson.NewObjectId()
    req,             \* per goroutine: the request it serves and its response
    refreshing,      \* number of running "go db.Session.Refresh()" goroutines
    served,          \* number of requests the server has accepted so far
    clones,          \* per clone of mgoSession, in order of creation: its Close() calls
    ms               \* per goroutine: the clone its contextual handler holds, 0 for none

vars == <<installations, sessions, now, objectIdCounter, req, refreshing, served,
          clones, ms>>

-----------------------------------------------------------------------------
(* Bounds of the model *)

\* the clock takes the values 1..MaxTime
MaxTime == 2

\* number of requests the server accepts in one run
MaxRequests == 3

\* number of Refresh goroutines running at once
MaxRefresh == 1

\* the goroutines serving requests
Procs == {"p1", "p2"}

-----------------------------------------------------------------------------
(* Program constants *)

\* http.StatusOK: the status of a response written without WriteHeader
StatusOK == 200

\* http.StatusBadRequest
StatusBadRequest == 400

\* http.StatusInternalServerError
StatusInternalServerError == 500

\* http.StatusNotFound: the status mux's router answers when no route matches
StatusNotFound == 404

\* http.StatusMethodNotAllowed: what later releases of mux answer when a route
\* matches the path but not the method
StatusMethodNotAllowed == 405

\* time.Time{}: the zero time, stored for "not closed" and "never pinged"
ZeroTime == 0

\* the number of fields each endpoint requires (len(r.PostForm) != n)
NewInstallationFields == 4

NewSessionFields == 3

CloseSessionFields == 2

PingSessionFields == 2

-----------------------------------------------------------------------------
(* Forms: r.PostForm is a map from the submitted field names to values *)

EmptyForm == [k \in {} |-> ""]

\* r.PostFormValue(key): the submitted value, "" when the key is missing
PostFormValue(form, key) == IF key \in DOMAIN form THEN form[key] ELSE ""

\* a count that ignores the fields no endpoint knows
LenKnownFields(form) ==
    Cardinality(DOMAIN form \cap {"machine_id", "xmppvox_version", "dosvox_info",
                                   "machine_info", "jid", "session_id"})

\* len(r.PostForm)
LenPostForm(form) == Cardinality(DOMAIN form)

-----------------------------------------------------------------------------
(* bson.ObjectId and its hexadecimal text form *)

\* the hex digits pairs of the ObjectIds 0x0a, 0x0b, ...
HexLower == <<"0a", "0b", "0c", "0d", "0e", "0f">>

HexUpper == <<"0A", "0B", "0C", "0D", "0E", "0F">>

\* the ObjectIds of the model: the bytes 0x0a .. 0x0f
ObjectIds == 10 .. (9 + Len(HexLower))

\* ObjectId.Hex(): lower-case hexadecimal
Hex(id) == HexLower[id - 9]

\* bson.IsObjectIdHex(s): s has the right length and decodes as hexadecimal
\* (hex.DecodeString accepts both cases)
IsObjectIdHex(s) ==
    \E i \in 1 .. Len(HexLower) : s = HexLower[i] \/ s = HexUpper[i]

\* bson.ObjectIdHex(s), for s with IsObjectIdHex(s)
ObjectIdHex(s) ==
    9 + (CHOOSE i \in 1 .. Len(HexLower) : s = HexLower[i] \/ s = HexUpper[i])

\* an id generator that repeats itself
NewObjectIdSame(counter) == 10

\* bson.NewObjectId(): unique per call, from an atomically incremented counter
NewObjectId(counter) == 10 + counter

-----------------------------------------------------------------------------
(* Response bodies *)

\* fmt.Fprintln(w, x): x and a newline, status 200
Fprintln(x) == <<x, "\n">>

\* http.Error(w, fmt.Sprintf(msg, arg), code): the message and a newline
HttpError(msg, arg) == <<msg, arg, "\n">>

-----------------------------------------------------------------------------
(* Records *)

\* a decoder whose error is dropped: a text that is no mapping leaves the map nil
JsonUnmarshalLenient(s) ==
    CASE s = "{}"              -> [err |-> FALSE, isNil |-> FALSE, kv |-> {}]
      [] s = "{\"k\":\"v\"}"   -> [err |-> FALSE, isNil |-> FALSE, kv |-> {<<"k", "v">>}]
      [] s = "{\"k\":\"w\"}"   -> [err |-> FALSE, isNil |-> FALSE, kv |-> {<<"k", "w">>}]
      [] OTHER                 -> [err |-> FALSE, isNil |-> TRUE,  kv |-> {}]

\* json.Unmarshal([]byte(s), &m) with m a map[string]string, on the sample
\* texts of the model: "null" leaves the map nil, an object of strings fills
\* it, a null value in an object is no error and leaves the element at its
\* zero value "", anything else (no JSON, an array, a string, an object with a
\* number) is an error
JsonUnmarshal(s) ==
    CASE s = "null"            -> [err |-> FALSE, isNil |-> TRUE,  kv |-> {}]
      [] s = "{}"              -> [err |-> FALSE, isNil |-> FALSE, kv |-> {}]
      [] s = "{\"k\":\"v\"}"   -> [err |-> FALSE, isNil |-> FALSE, kv |-> {<<"k", "v">>}]
      [] s = "{\"k\":\"w\"}"   -> [err |-> FALSE, isNil |-> FALSE, kv |-> {<<"k", "w">>}]
      [] s = "{\"k\":null}"    -> [err |-> FALSE, isNil |-> FALSE, kv |-> {<<"k", "">>}]
      [] OTHER                 -> [err |-> TRUE,  isNil |-> TRUE,  kv |-> {}]

\* the map a successful JsonUnmarshal produced
MapOf(u) == [isNil |-> u.isNil, kv |-> u.kv]

\* a constructor that swaps the two info maps
NewInstallationSwapped(machineId, xmppvoxVersion, dosvoxInfo, machineInfo, t) ==
    [machine_id   |-> machineId,
     xmppvox_ver  |-> xmppvoxVersion,
     dosvox_info  |-> machineInfo,
     machine_info |-> dosvoxInfo,
     created_at   |-> t]

\* NewInstallation(machineId, xmppvoxVersion, dosvoxInfo, machineInfo),
\* t being the value of bson.Now()
NewInstallation(machineId, xmppvoxVersion, dosvoxInfo, machineInfo, t) ==
    [machine_id   |-> machineId,
     xmppvox_ver  |-> xmppvoxVersion,
     dosvox_info  |-> dosvoxInfo,
     machine_info |-> machineInfo,
     created_at   |-> t]

\* a constructor that swaps jid and machine id
NewSessionSwapped(id, jid, machineId, xmppvoxVersion, t) ==
    [id          |-> id,
     created_at  |-> t,
     closed_at   |-> ZeroTime,
     last_ping   |-> ZeroTime,
     jid         |-> machineId,
     machine_id  |-> jid,
     xmppvox_ver |-> xmppvoxVersion]

\* NewSession(jid, machineId, xmppvoxVersion, r), id being the value of
\* bson.NewObjectId() and t the value of bson.Now(); ClosedAt and LastPing
\* keep Go's zero value.  The request snapshot r is not modelled.
NewSession(id, jid, machineId, xmppvoxVersion, t) ==
    [id          |-> id,
     created_at  |-> t,
     closed_at   |-> ZeroTime,
     last_ping   |-> ZeroTime,
     jid         |-> jid,
     machine_id  |-> machineId,
     xmppvox_ver |-> xmppvoxVersion]

-----------------------------------------------------------------------------
(* The store: the operations of MongoStore, each one atomic in MongoDB.     *)
(* An operation maps a collection to the error it returns and the          *)
(* collection afterwards.  The errors are "nil", "dup" (a duplicate-key    *)
(* error, mgo.IsDup), "notfound" (mgo.ErrNotFound) and "other".            *)

\* the collection c with document d stored under key k
Put(c, k, d) == [x \in DOMAIN c \cup {k} |-> IF x = k THEN d ELSE c[x]]

\* an insert that overwrites (an upsert)
InsertInstallationOverwrite(insts, i) ==
    [err |-> "nil", coll |-> Put(insts, i.machine_id, i)]

\* m.C("installations").Insert(i): _id is the machine id
InsertInstallation(insts, i) ==
    IF i.machine_id \in DOMAIN insts
    THEN [err |-> "dup", coll |-> insts]
    ELSE [err |-> "nil", coll |-> Put(insts, i.machine_id, i)]

\* an insert that replaces the session stored under the id (an upsert)
InsertSessionOverwrite(sess, s) ==
    [err |-> "nil", coll |-> Put(sess, s.id, s)]

\* m.C("sessions").Insert(s): _id is the ObjectId
InsertSession(sess, s) ==
    IF s.id \in DOMAIN sess
    THEN [err |-> "dup", coll |-> sess]
    ELSE [err |-> "nil", coll |-> Put(sess, s.id, s)]

\* a query without the machine_id
MatchNoOwner(sess, sessionId, machineId) ==
    /\ sessionId \in DOMAIN sess
    /\ sess[sessionId].closed_at = ZeroTime

\* a query without the closed_at
MatchNoClosed(sess, sessionId, machineId) ==
    /\ sessionId \in DOMAIN sess
    /\ sess[sessionId].machine_id = machineId

\* the query {_id, machine_id, closed_at: time.Time{}} of close and ping
Match(sess, sessionId, machineId) ==
    /\ sessionId \in DOMAIN sess
    /\ sess[sessionId].machine_id = machineId
    /\ sess[sessionId].closed_at = ZeroTime

\* a close that matches on id and owner alone and writes closed_at again
CloseSessionRewrite(sess, sessionId, machineId, t) ==
    IF sessionId \in DOMAIN sess /\ sess[sessionId].machine_id = machineId
    THEN [err |-> "nil", coll |-> [sess EXCEPT ![sessionId].closed_at = t]]
    ELSE [err |-> "notfound", coll |-> sess]

\* a close that reports a session that is already closed with an error of its own
CloseSessionTellsClosed(sess, sessionId, machineId, t) ==
    IF sessionId \in DOMAIN sess /\ sess[sessionId].machine_id = machineId
    THEN IF sess[sessionId].closed_at = ZeroTime
         THEN [err |-> "nil", coll |-> [sess EXCEPT ![sessionId].closed_at = t]]
         ELSE [err |-> "other", coll |-> sess]
    ELSE [err |-> "notfound", coll |-> sess]

\* a close that also counts as a ping: it sets last_ping with closed_at
CloseSessionTouch(sess, sessionId, machineId, t) ==
    IF Match(sess, sessionId, machineId)
    THEN [err |-> "nil",
          coll |-> [sess EXCEPT ![sessionId].closed_at = t, ![sessionId].last_ping = t]]
    ELSE [err |-> "notfound", coll |-> sess]

\* a close that removes the session from the collection
CloseSessionRemove(sess, sessionId, machineId, t) ==
    IF Match(sess, sessionId, machineId)
    THEN [err |-> "nil", coll |-> [k \in DOMAIN sess \ {sessionId} |-> sess[k]]]
    ELSE [err |-> "notfound", coll |-> sess]

\* Find(query).Apply({$set: {closed_at: t}}), t being bson.Now() as read
\* when the update was built
CloseSession(sess, sessionId, machineId, t) ==
    IF Match(sess, sessionId, machineId)
    THEN [err |-> "nil", coll |-> [sess EXCEPT ![sessionId].closed_at = t]]
    ELSE [err |-> "notfound", coll |-> sess]

\* a ping that matches on id and owner alone, closed sessions included
PingSessionAnyState(sess, sessionId, machineId, t) ==
    IF sessionId \in DOMAIN sess /\ sess[sessionId].machine_id = machineId
    THEN [err |-> "nil", coll |-> [sess EXCEPT ![sessionId].last_ping = t]]
    ELSE [err |-> "notfound", coll |-> sess]

\* a ping that reports success without writing last_ping
PingSessionNoWrite(sess, sessionId, machineId, t) ==
    IF Match(sess, sessionId, machineId)
    THEN [err |-> "nil", coll |-> sess]
    ELSE [err |-> "notfound", coll |-> sess]

\* Find(query).Apply({$set: {last_ping: t}})
PingSession(sess, sessionId, machineId, t) ==
    IF Match(sess, sessionId, machineId)
    THEN [err |-> "nil", coll |-> [sess EXCEPT ![sessionId].last_ping = t]]
    ELSE [err |-> "notfound", coll |-> sess]

\* TestStore.InsertInstallation: the map of installations by machine id; its
\* error for a key that is present is a QueryError with code 11000, which
\* mgo.IsDup accepts
TestStoreInsertInstallation(insts, i) ==
    IF i.machine_id \in DOMAIN insts
    THEN [err |-> "dup", coll |-> insts]
    ELSE [err |-> "nil", coll |-> Put(insts, i.machine_id, i)]

\* TestStore.InsertSession: the map of sessions by id; its error for a key
\* that is present is errors.New("duplicate"), which mgo.IsDup does not
\* accept and which is not mgo.ErrNotFound
TestStoreInsertSession(sess, s) ==
    IF s.id \in DOMAIN sess
    THEN [err |-> "other", coll |-> sess]
    ELSE [err |-> "nil", coll |-> Put(sess, s.id, s)]

\* TestStore.CloseSession, t being bson.Now()
TestStoreCloseSession(sess, sessionId, machineId, t) ==
    IF /\ sessionId \in DOMAIN sess
       /\ sess[sessionId].machine_id = machineId
       /\ sess[sessionId].closed_at = ZeroTime
    THEN [err |-> "nil", coll |-> [sess EXCEPT ![sessionId].closed_at = t]]
    ELSE [err |-> "notfound", coll |-> sess]

\* TestStore.PingSession, t being bson.Now()
TestStorePingSession(sess, sessionId, machineId, t) ==
    IF /\ sessionId \in DOMAIN sess
       /\ sess[sessionId].machine_id = machineId
       /\ sess[sessionId].closed_at = ZeroTime
    THEN [err |-> "nil", coll |-> [sess EXCEPT ![sessionId].last_ping = t]]
    ELSE [err |-> "notfound", coll |-> sess]

-----------------------------------------------------------------------------
(* Requests and responses *)

\* a goroutine that serves no request
Idle ==
    [pc |-> "idle", endpoint |-> "", form |-> EmptyForm, id |-> 0, t |-> 0,
     openAtStart |-> FALSE, status |-> 0, body |-> <<>>, err |-> "", calls |-> 0]

\* a request answered by the handler's validation, without a store call
Rejected(endpoint, form, body) ==
    [pc |-> "done", endpoint |-> endpoint, form |-> form, id |-> 0, t |-> 0,
     openAtStart |-> FALSE, status |-> StatusBadRequest, body |-> body,
     err |-> "", calls |-> 0]

\* a request whose store operation is under way: id is the ObjectId it is
\* about, t the value bson.Now() returned to it; openAtStart records whether
\* the store's query matched an open session when the call was issued
InFlight(endpoint, form, id, t, open) ==
    [pc |-> "store", endpoint |-> endpoint, form |-> form, id |-> id, t |-> t,
     openAtStart |-> open, status |-> 0, body |-> <<>>, err |-> "", calls |-> 0]

\* a handler that issues its store call again when the store was unreachable
AnsweredRetry(r, a, err) ==
    IF err = "other"
    THEN [r EXCEPT !.calls = r.calls + 1]
    ELSE [r EXCEPT !.pc = IF a.refresh THEN "spawn" ELSE "done",
                   !.status = a.status, !.body = a.body,
                   !.err = err, !.calls = r.calls + 1,
                   !.id = 0, !.t = 0, !.openAtStart = FALSE]

\* the request r answered with response a after its store call returned err:
\* the response is written and the handler's locals (id, t) are no longer
\* used; the handler has returned ("done") unless it goes on to start the
\* Refresh goroutine ("spawn")
Answered(r, a, err) ==
    [r EXCEPT !.pc = IF a.refresh THEN "spawn" ELSE "done",
              !.status = a.status, !.body = a.body,
              !.err = err, !.calls = r.calls + 1,
              !.id = 0, !.t = 0, !.openAtStart = FALSE]

\* NewInstallationHandler, lines 58-72: the response to InsertInstallation's
\* error; refresh says whether "go db.Session.Refresh()" is started
NewInstallationRespond(machineId, err) ==
    IF err = "dup"
    THEN [status |-> StatusBadRequest, refresh |-> FALSE,
          body |-> HttpError("Installation already registered", "")]
    ELSE IF err = "nil"
    THEN [status |-> StatusOK, refresh |-> FALSE, body |-> Fprintln(machineId)]
    ELSE [status |-> StatusInternalServerError, refresh |-> TRUE,
          body |-> HttpError("Failed to track install", machineId)]

\* NewSessionHandler, lines 99-114
NewSessionRespond(id, err) ==
    IF err = "nil"
    THEN [status |-> StatusOK, refresh |-> FALSE, body |-> Fprintln(Hex(id))]
    ELSE [status |-> StatusInternalServerError, refresh |-> TRUE,
          body |-> HttpError("Failed to create a new session", "")]

\* a response that prints the decoded id instead of the submitted text
CloseSessionRespondCanonical(sessionIdHex, err) ==
    IF err = "nil"
    THEN [status |-> StatusOK, refresh |-> FALSE,
          body |-> Fprintln(Hex(ObjectIdHex(sessionIdHex)))]
    ELSE IF err = "notfound"
    THEN [status |-> StatusBadRequest, refresh |-> FALSE,
          body |-> HttpError("Session does not exist or is already closed", sessionIdHex)]
    ELSE [status |-> StatusInternalServerError, refresh |-> TRUE,
          body |-> HttpError("Failed to close session", sessionIdHex)]

\* a response to a failed store call that starts no Refresh
CloseSessionRespondNoRefresh(sessionIdHex, err) ==
    IF err = "nil"
    THEN [status |-> StatusOK, refresh |-> FALSE, body |-> Fprintln(sessionIdHex)]
    ELSE IF err = "notfound"
    THEN [status |-> StatusBadRequest, refresh |-> FALSE,
          body |-> HttpError("Session does not exist or is already closed", sessionIdHex)]
    ELSE [status |-> StatusInternalServerError, refresh |-> FALSE,
          body |-> HttpError("Failed to close session", sessionIdHex)]

\* CloseSessionHandler, lines 130-143
CloseSessionRespond(sessionIdHex, err) ==
    IF err = "nil"
    THEN [status |-> StatusOK, refresh |-> FALSE, body |-> Fprintln(sessionIdHex)]
    ELSE IF err = "notfound"
    THEN [status |-> StatusBadRequest, refresh |-> FALSE,
          body |-> HttpError("Session does not exist or is already closed", sessionIdHex)]
    ELSE [status |-> StatusInternalServerError, refresh |-> TRUE,
          body |-> HttpError("Failed to close session", sessionIdHex)]

\* PingSessionHandler, lines 159-172
PingSessionRespond(sessionIdHex, err) ==
    IF err = "nil"
    THEN [status |-> StatusOK, refresh |-> FALSE, body |-> Fprintln(sessionIdHex)]
    ELSE IF err = "notfound"
    THEN [status |-> StatusBadRequest, refresh |-> FALSE,
          body |-> HttpError("Session does not exist or is already closed", sessionIdHex)]
    ELSE [status |-> StatusInternalServerError, refresh |-> TRUE,
          body |-> HttpError("Failed to ping session", sessionIdHex)]

-----------------------------------------------------------------------------
(* The state after construction: an empty database, no request *)

Init ==
    /\ installations = [k \in {} |-> 0]
    /\ sessions = [k \in {} |-> 0]
    /\ now = 1
    /\ objectIdCounter = 0
    /\ req = [p \in Procs |-> Idle]
    /\ refreshing = 0
    /\ served = 0
    /\ clones = <<>>
    /\ ms = [p \in Procs |-> 0]

\* the wall clock advances
Tick ==
    /\ now < MaxTime
    /\ now' = now + 1
    /\ UNCHANGED <<installations, sessions, objectIdCounter, req, refreshing, served,
                   clones, ms>>

\* a "go db.Session.Refresh()" goroutine ends
RefreshDone ==
    /\ refreshing > 0
    /\ refreshing' = refreshing - 1
    /\ UNCHANGED <<installations, sessions, now, objectIdCounter, req, served,
                   clones, ms>>

\* the server accepts one more request; the handler that serves it leaves
\* the clones of mgoSession alone
Accept ==
    /\ served < MaxRequests
    /\ served' = served + 1
    /\ UNCHANGED <<clones, ms>>

\* the store call of goroutine p returns err, the collections becoming insts
\* and sess, and the handler writes response a
Reply(p, err, insts, sess, a) ==
    /\ installations' = insts
    /\ sessions' = sess
    /\ req' = [req EXCEPT ![p] = Answered(req[p], a, err)]
    /\ UNCHANGED <<now, objectIdCounter, refreshing, served, clones, ms>>

\* a handler that runs Refresh itself and waits for it to return
StartRefreshSync(p) ==
    /\ req[p].pc = "spawn"
    /\ refreshing < MaxRefresh
    /\ refreshing' = refreshing + 1
    /\ req' = [req EXCEPT ![p].pc = "waiting"]
    /\ UNCHANGED <<installations, sessions, now, objectIdCounter, served, clones, ms>>

\* "go db.Session.Refresh()" after the 500 response was written: the
\* goroutine is started and the handler returns
StartRefresh(p) ==
    /\ req[p].pc = "spawn"
    /\ refreshing < MaxRefresh
    /\ refreshing' = refreshing + 1
    /\ req' = [req EXCEPT ![p].pc = "done"]
    /\ UNCHANGED <<installations, sessions, now, objectIdCounter, served, clones, ms>>

-----------------------------------------------------------------------------
(* POST /1/session/new *)

\* NewSessionHandler up to the call of InsertSession
NewSessionHandler(p, form) ==
    LET jid            == PostFormValue(form, "jid")
        machineId      == PostFormValue(form, "machine_id")
        xmppvoxVersion == PostFormValue(form, "xmppvox_version")
    IN  /\ req[p].pc \notin {"store", "spawn"}
        /\ Accept
        /\ IF \/ LenPostForm(form) # NewSessionFields
              \/ jid = ""
              \/ machineId = ""
              \/ xmppvoxVersion = ""
           THEN /\ req' = [req EXCEPT ![p] = Rejected("session/new", form,
                              HttpError("Retry with POST parameters: jid, machine_id, xmppvox_version", ""))]
                /\ UNCHANGED objectIdCounter
           ELSE /\ req' = [req EXCEPT ![p] = InFlight("session/new", form,
                              NewObjectId(objectIdCounter), now, FALSE)]
                /\ objectIdCounter' = objectIdCounter + 1
        /\ UNCHANGED <<installations, sessions, now, refreshing>>

\* InsertSession in the store, and the rest of NewSessionHandler; fail says
\* that the store cannot be reached
InsertSessionReply(p, fail) ==
    /\ req[p].pc = "store"
    /\ req[p].endpoint = "session/new"
    /\ LET r   == req[p]
           s   == NewSession(r.id, r.form["jid"], r.form["machine_id"],
                             r.form["xmppvox_version"], r.t)
           res == IF fail THEN [err |-> "other", coll |-> sessions]
                          ELSE InsertSession(sessions, s)
       IN  Reply(p, res.err, installations, res.coll, NewSessionRespond(r.id, res.err))

-----------------------------------------------------------------------------
(* POST /1/session/close *)

\* CloseSessionHandler up to the call of CloseSession, which reads bson.Now()
\* for the update before it sends the query
CloseSessionHandler(p, form) ==
    LET sessionIdHex == PostFormValue(form, "session_id")
        machineId    == PostFormValue(form, "machine_id")
    IN  /\ req[p].pc \notin {"store", "spawn"}
        /\ Accept
        /\ req' = [req EXCEPT ![p] =
             IF \/ LenPostForm(form) # CloseSessionFields
                \/ sessionIdHex = ""
                \/ machineId = ""
             THEN Rejected("session/close", form,
                      HttpError("Retry with POST parameters: session_id, machine_id", ""))
             ELSE IF ~IsObjectIdHex(sessionIdHex)
             THEN Rejected("session/close", form,
                      HttpError("Invalid session id", sessionIdHex))
             ELSE InFlight("session/close", form, ObjectIdHex(sessionIdHex), now,
                      Match(sessions, ObjectIdHex(sessionIdHex), machineId))]
        /\ UNCHANGED <<installations, sessions, now, objectIdCounter, refreshing>>

\* a close that tests the query when the call is issued and writes when the
\* store is reached, instead of one find-and-modify
CloseSessionCallTestThenSet(sess, r) ==
    IF r.openAtStart
    THEN [err |-> "nil", coll |-> [sess EXCEPT ![r.id].closed_at = r.t]]
    ELSE [err |-> "notfound", coll |-> sess]

\* the call CloseSession(sessionId, machineId) of request r
CloseSessionCall(sess, r) ==
    CloseSession(sess, r.id, r.form["machine_id"], r.t)

\* CloseSession in the store, and the rest of CloseSessionHandler
CloseSessionReply(p, fail) ==
    /\ req[p].pc = "store"
    /\ req[p].endpoint = "session/close"
    /\ LET r   == req[p]
           res == IF fail THEN [err |-> "other", coll |-> sessions]
                          ELSE CloseSessionCall(sessions, r)
       IN  Reply(p, res.err, installations, res.coll,
                 CloseSessionRespond(r.form["session_id"], res.err))

-----------------------------------------------------------------------------
(* POST /1/session/ping *)

\* PingSessionHandler up to the call of PingSession
PingSessionHandler(p, form) ==
    LET sessionIdHex == PostFormValue(form, "session_id")
        machineId    == PostFormValue(form, "machine_id")
    IN  /\ req[p].pc \notin {"store", "spawn"}
        /\ Accept
        /\ req' = [req EXCEPT ![p] =
             IF \/ LenPostForm(form) # PingSessionFields
                \/ sessionIdHex = ""
                \/ machineId = ""
             THEN Rejected("session/ping", form,
                      HttpError("Retry with POST parameters: session_id, machine_id", ""))
             ELSE IF ~IsObjectIdHex(sessionIdHex)
             THEN Rejected("session/ping", form,
                      HttpError("Invalid session id", sessionIdHex))
             ELSE InFlight("session/ping", form, ObjectIdHex(sessionIdHex), now,
                      Match(sessions, ObjectIdHex(sessionIdHex), machineId))]
        /\ UNCHANGED <<installations, sessions, now, objectIdCounter, refreshing>>

\* PingSession in the store, and the rest of PingSessionHandler
PingSessionReply(p, fail) ==
    /\ req[p].pc = "store"
    /\ req[p].endpoint = "session/ping"
    /\ LET r   == req[p]
           res == IF fail THEN [err |-> "other", coll |-> sessions]
                          ELSE PingSession(sessions, r.id, r.form["machine_id"], r.t)
       IN  Reply(p, res.err, installations, res.coll,
                 PingSessionRespond(r.form["session_id"], res.err))

-----------------------------------------------------------------------------
(* POST /1/installation/new *)

\* NewInstallationHandler up to the call of InsertInstallation
NewInstallationHandler(p, form) ==
    LET machineId      == PostFormValue(form, "machine_id")
        xmppvoxVersion == PostFormValue(form, "xmppvox_version")
        dosvoxInfoStr  == PostFormValue(form, "dosvox_info")
        machineInfoStr == PostFormValue(form, "machine_info")
    IN  /\ req[p].pc \notin {"store", "spawn"}
        /\ Accept
        /\ req' = [req EXCEPT ![p] =
             IF \/ LenPostForm(form) # NewInstallationFields
                \/ machineId = ""
                \/ xmppvoxVersion = ""
                \/ dosvoxInfoStr = ""
                \/ machineInfoStr = ""
             THEN Rejected("installation/new", form,
                      HttpError("Retry with POST parameters: machine_id, xmppvox_version, dosvox_info, machine_info", ""))
             ELSE IF JsonUnmarshal(dosvoxInfoStr).err
             THEN Rejected("installation/new", form,
                      HttpError("Invalid JSON for dosvox_info", ""))
             ELSE IF JsonUnmarshal(machineInfoStr).err
             THEN Rejected("installation/new", form,
                      HttpError("Invalid JSON for machine_info", ""))
             ELSE InFlight("installation/new", form, 0, now, FALSE)]
        /\ UNCHANGED <<installations, sessions, now, objectIdCounter, refreshing>>

\* InsertInstallation in the store, and the rest of NewInstallationHandler
InsertInstallationReply(p, fail) ==
    /\ req[p].pc = "store"
    /\ req[p].endpoint = "installation/new"
    /\ LET r   == req[p]
           i   == NewInstallation(r.form["machine_id"], r.form["xmppvox_version"],
                      MapOf(JsonUnmarshal(r.form["dosvox_info"])),
                      MapOf(JsonUnmarshal(r.form["machine_info"])), r.t)
           res == IF fail THEN [err |-> "other", coll |-> installations]
                          ELSE InsertInstallation(installations, i)
       IN  Reply(p, res.err, res.coll, sessions,
                 NewInstallationRespond(r.form["machine_id"], res.err))

-----------------------------------------------------------------------------
(* The router of APIHandler *)

\* a router whose endpoint routes match every method
RouteAnyMethod(method, path) ==
    IF path = "/" THEN "root"
    ELSE IF path = "/uptime" THEN "uptime"
    ELSE IF path = "/1/installation/new" THEN "installation/new"
    ELSE IF path = "/1/session/new" THEN "session/new"
    ELSE IF path = "/1/session/close" THEN "session/close"
    ELSE IF path = "/1/session/ping" THEN "session/ping"
    ELSE "notfound"

\* the route mux matches for a request: "/" and "/uptime" match any method,
\* the four endpoints under "/1" match POST alone; "nomethod" when only the
\* method keeps an endpoint's route from matching, "notfound" when no route
\* has the path
Route(method, path) ==
    IF path = "/" THEN "root"
    ELSE IF path = "/uptime" THEN "uptime"
    ELSE IF path \in {"/1/installation/new", "/1/session/new",
                      "/1/session/close", "/1/session/ping"}
    THEN IF method # "POST" THEN "nomethod"
         ELSE IF path = "/1/installation/new" THEN "installation/new"
         ELSE IF path = "/1/session/new" THEN "session/new"
         ELSE IF path = "/1/session/close" THEN "session/close"
         ELSE "session/ping"
    ELSE "notfound"

\* a request answered without validation and without a store call
Direct(endpoint, form, status, body) ==
    [pc |-> "done", endpoint |-> endpoint, form |-> form, id |-> 0, t |-> 0,
     openAtStart |-> FALSE, status |-> status, body |-> body,
     err |-> "", calls |-> 0]

\* the handler of "/": fmt.Fprintln(w, "API OK")
RootHandler(p, form) ==
    /\ req[p].pc \notin {"store", "spawn"}
    /\ Accept
    /\ req' = [req EXCEPT ![p] = Direct("root", form, StatusOK, Fprintln("API OK"))]
    /\ UNCHANGED <<installations, sessions, now, objectIdCounter, refreshing>>

\* fmt's %d of a number that is not negative: its decimal digits
RECURSIVE Itoa(_)
Itoa(n) == IF n < 10 THEN <<n>> ELSE Append(Itoa(n \div 10), n % 10)

\* fmt's %02d of a number that is not negative: at least two digits
Pad2(n) == IF n < 10 THEN <<0, n>> ELSE Itoa(n)

\* an uptime that prints the hours without taking the days out
UptimeTotalHours(d) ==
    LET h == d \div 3600
        m == d \div 60
        s == d
    IN  <<"API uptime: ", Itoa(h \div 24), "d", Pad2(h), "h",
          Pad2(m % 60), "m", Pad2(s % 60), "s", "\n">>

\* the line "/uptime" prints for an elapsed time of d seconds: h, m and s are
\* int(d.Hours()), int(d.Minutes()) and int(d.Seconds()), the elapsed time in
\* whole hours, whole minutes and whole seconds
Uptime(d) ==
    LET h == d \div 3600
        m == d \div 60
        s == d
    IN  <<"API uptime: ", Itoa(h \div 24), "d", Pad2(h % 24), "h",
          Pad2(m % 60), "m", Pad2(s % 60), "s", "\n">>

\* the handler of "/uptime", d being time.Since(t) in seconds; the answered
\* request keeps d in its field t
UptimeHandler(p, form, d) ==
    /\ req[p].pc \notin {"store", "spawn"}
    /\ Accept
    /\ req' = [req EXCEPT ![p] =
                  [Direct("uptime", form, StatusOK, Uptime(d)) EXCEPT !.t = d]]
    /\ UNCHANGED <<installations, sessions, now, objectIdCounter, refreshing>>

\* http.NotFound, which mux calls when no route matches
NotFoundHandler(p, form) ==
    /\ req[p].pc \notin {"store", "spawn"}
    /\ Accept
    /\ req' = [req EXCEPT ![p] =
                  Direct("notfound", form, StatusNotFound, Fprintln("404 page not found"))]
    /\ UNCHANGED <<installations, sessions, now, objectIdCounter, refreshing>>

\* the router's answer when the path is an endpoint's and the method is not
\* POST: 404 from the mux release of the code's time, 405 from later ones
MethodMismatchHandler(p, form, status) ==
    /\ req[p].pc \notin {"store", "spawn"}
    /\ Accept
    /\ req' = [req EXCEPT ![p] = Direct("nomethod", form, status, <<>>)]
    /\ UNCHANGED <<installations, sessions, now, objectIdCounter, refreshing>>

\* Router.ServeHTTP: the handler of the matching route serves the request, d
\* being the time in seconds since APIHandler built the router
ServeHTTP(p, method, path, form, d) ==
    LET route == Route(method, path)
    IN  \/ route = "root" /\ RootHandler(p, form)
        \/ route = "uptime" /\ UptimeHandler(p, form, d)
        \/ route = "installation/new" /\ NewInstallationHandler(p, form)
        \/ route = "session/new" /\ NewSessionHandler(p, form)
        \/ route = "session/close" /\ CloseSessionHandler(p, form)
        \/ route = "session/ping" /\ PingSessionHandler(p, form)
        \/ route = "notfound" /\ NotFoundHandler(p, form)
        \/ /\ route = "nomethod"
           /\ \E status \in {StatusNotFound, StatusMethodNotAllowed} :
                  MethodMismatchHandler(p, form, status)

-----------------------------------------------------------------------------
(* The requests of the model *)

\* the machine ids clients submit
MachineIds == {"M1", "M2"}

\* the texts clients submit as session_id: the ids NewObjectId has handed out
\* and the one it hands out next, in lower case, the first id in upper case
\* too, and a text that is no id
SessionIdTexts ==
    {Hex(NewObjectId(c)) : c \in 0 .. objectIdCounter} \cup {HexUpper[1], "zz"}

\* forms of session/new: the well-formed ones and one with an extra field
NewSessionForms ==
    {[jid |-> "a@b", machine_id |-> m, xmppvox_version |-> "1.0"] : m \in MachineIds}
    \cup {[jid |-> "a@b", machine_id |-> "M1", xmppvox_version |-> "1.0",
           extra_invalid_field |-> "x"]}

\* forms of session/close and session/ping: the well-formed ones (the id may
\* be malformed) and one with an empty field
SessionForms ==
    {[session_id |-> s, machine_id |-> m] : s \in SessionIdTexts, m \in MachineIds}
    \cup {[session_id |-> Hex(NewObjectId(0)), machine_id |-> ""]}

\* forms of installation/new: the well-formed ones, one whose dosvox_info is
\* no JSON and one with a field missing
NewInstallationForms ==
    {[machine_id |-> m, xmppvox_version |-> v, dosvox_info |-> d,
      machine_info |-> "{\"k\":\"v\"}"] :
        m \in MachineIds, v \in {"1.0", "1.1"}, d \in {"null", "{\"k\":\"w\"}"}}
    \cup {[machine_id |-> "M1", xmppvox_version |-> "1.0", dosvox_info |-> "{",
           machine_info |-> "null"],
          [machine_id |-> "M1", xmppvox_version |-> "1.0", dosvox_info |-> "null"]}

-----------------------------------------------------------------------------
(* The server, the store being reachable: requests are served concurrently *)
(* by the goroutines Procs.  Spec serves the three session endpoints,      *)
(* SpecInstall the installation endpoint; no handler of one group reads    *)
(* or writes the collection of the other.                                  *)

Next ==
    \/ Tick
    \/ \E p \in Procs, form \in NewSessionForms : NewSessionHandler(p, form)
    \/ \E p \in Procs : InsertSessionReply(p, FALSE)
    \/ \E p \in Procs, form \in SessionForms : CloseSessionHandler(p, form)
    \/ \E p \in Procs : CloseSessionReply(p, FALSE)
    \/ \E p \in Procs, form \in SessionForms : PingSessionHandler(p, form)
    \/ \E p \in Procs : PingSessionReply(p, FALSE)

Spec == Init /\ [][Next]_vars

\* the same endpoints with one request at a time: each request is answered
\* before the next one is accepted
SeqProcs == {"p1"}

NextSeq ==
    \/ Tick
    \/ \E p \in SeqProcs, form \in NewSessionForms : NewSessionHandler(p, form)
    \/ \E p \in SeqProcs : InsertSessionReply(p, FALSE)
    \/ \E p \in SeqProcs, form \in SessionForms : CloseSessionHandler(p, form)
    \/ \E p \in SeqProcs : CloseSessionReply(p, FALSE)
    \/ \E p \in SeqProcs, form \in SessionForms : PingSessionHandler(p, form)
    \/ \E p \in SeqProcs : PingSessionReply(p, FALSE)

SpecSeq == Init /\ [][NextSeq]_vars

NextInstall ==
    \/ Tick
    \/ \E p \in Procs, form \in NewInstallationForms : NewInstallationHandler(p, form)
    \/ \E p \in Procs : InsertInstallationReply(p, FALSE)

SpecInstall == Init /\ [][NextInstall]_vars

-----------------------------------------------------------------------------
(* Validation: the four endpoints with forms that have missing, empty,     *)
(* extra and unknown fields; and the whole service behind its router,      *)
(* with a store that may be unreachable when an operation is issued.       *)

\* the form without field k
Without(form, k) == [x \in DOMAIN form \ {k} |-> form[x]]

\* the form with field k set to v
With(form, k, v) == [x \in DOMAIN form \cup {k} |-> IF x = k THEN v ELSE form[x]]

\* the malformed variants of a well-formed form: one field missing, one field
\* empty, one field too many, and one field replaced by an unknown one
Variants(form) ==
    {Without(form, k) : k \in DOMAIN form}
    \cup {[form EXCEPT ![k] = ""] : k \in DOMAIN form}
    \cup {With(form, "extra_invalid_field", "x")}
    \cup {With(Without(form, k), "extra_invalid_field", "x") : k \in DOMAIN form}

AllNewInstallationForms ==
    NewInstallationForms
    \cup Variants([machine_id |-> "M1", xmppvox_version |-> "1.0",
                   dosvox_info |-> "null", machine_info |-> "{\"k\":\"v\"}"])
    \cup {[machine_id |-> "M1", xmppvox_version |-> "1.0", dosvox_info |-> "null",
           machine_info |-> "[1]"]}

AllNewSessionForms ==
    NewSessionForms
    \cup Variants([jid |-> "a@b", machine_id |-> "M1", xmppvox_version |-> "1.0"])

AllSessionForms ==
    SessionForms
    \cup Variants([session_id |-> Hex(NewObjectId(0)), machine_id |-> "M1"])

\* the four endpoints, the store being reachable, served one request at a
\* time with these forms
NextForms ==
    \/ Tick
    \/ \E p \in SeqProcs, form \in AllNewInstallationForms : NewInstallationHandler(p, form)
    \/ \E p \in SeqProcs : InsertInstallationReply(p, FALSE)
    \/ \E p \in SeqProcs, form \in AllNewSessionForms : NewSessionHandler(p, form)
    \/ \E p \in SeqProcs : InsertSessionReply(p, FALSE)
    \/ \E p \in SeqProcs, form \in AllSessionForms : CloseSessionHandler(p, form)
    \/ \E p \in SeqProcs : CloseSessionReply(p, FALSE)
    \/ \E p \in SeqProcs, form \in AllSessionForms : PingSessionHandler(p, form)
    \/ \E p \in SeqProcs : PingSessionReply(p, FALSE)

SpecForms == Init /\ [][NextForms]_vars

\* the requests clients send to the router: the four endpoints with their
\* forms, the two informational routes, an endpoint with the wrong method and
\* an unknown path
Requests ==
    {[method |-> "POST", path |-> "/1/installation/new", form |-> f] :
        f \in {g \in NewInstallationForms :
                  g["machine_id"] = "M1" /\ g["xmppvox_version"] = "1.0"}}
    \cup {[method |-> "POST", path |-> "/1/session/new", form |-> f] :
        f \in {g \in NewSessionForms : g["machine_id"] = "M1"}}
    \cup {[method |-> "POST", path |-> pa, form |-> f] :
        pa \in {"/1/session/close", "/1/session/ping"}, f \in SessionForms}
    \cup {[method |-> "GET", path |-> pa, form |-> EmptyForm] :
        pa \in {"/", "/uptime", "/1/session/new"}}
    \cup {[method |-> "POST", path |-> "/1/session/delete",
           form |-> [session_id |-> Hex(NewObjectId(0)), machine_id |-> "M1"]],
          [method |-> "POST", path |-> "/session/new",
           form |-> [jid |-> "a@b", machine_id |-> "M1", xmppvox_version |-> "1.0"]]}

\* the time since the start, in seconds, at which the router's requests arrive
RouterElapsed == {59, 25 * 3600 + 61}

\* the whole service behind its router, the store failing or not
NextAll ==
    \/ Tick
    \/ RefreshDone
    \/ \E p \in SeqProcs : StartRefresh(p)
    \/ \E p \in SeqProcs, r \in Requests, d \in RouterElapsed :
           ServeHTTP(p, r.method, r.path, r.form, d)
    \/ \E p \in SeqProcs, fail \in BOOLEAN : InsertInstallationReply(p, fail)
    \/ \E p \in SeqProcs, fail \in BOOLEAN : InsertSessionReply(p, fail)
    \/ \E p \in SeqProcs, fail \in BOOLEAN : CloseSessionReply(p, fail)
    \/ \E p \in SeqProcs, fail \in BOOLEAN : PingSessionReply(p, fail)

SpecAll == Init /\ [][NextAll]_vars

-----------------------------------------------------------------------------
(* The installation endpoint with info fields of every shape *)

\* texts submitted as dosvox_info and machine_info: null, objects of strings,
\* a text that is no JSON, an array, an object with a number, a string, and an
\* object with a null
InfoTexts ==
    {"null", "{}", "{\"k\":\"v\"}", "{", "[1]", "{\"k\":1}", "\"s\"", "{\"k\":null}"}

\* well-formed field sets, one of the two info fields varying
InfoForms ==
    {[machine_id |-> m, xmppvox_version |-> "1.0", dosvox_info |-> d,
      machine_info |-> "null"] : m \in MachineIds, d \in InfoTexts}
    \cup {[machine_id |-> m, xmppvox_version |-> "1.0", dosvox_info |-> "null",
           machine_info |-> i] : m \in MachineIds, i \in InfoTexts}

NextInfo ==
    \/ Tick
    \/ \E p \in SeqProcs, form \in InfoForms : NewInstallationHandler(p, form)
    \/ \E p \in SeqProcs : InsertInstallationReply(p, FALSE)

SpecInfo == Init /\ [][NextInfo]_vars

-----------------------------------------------------------------------------
(* The informational routes on their own, over many elapsed times *)

\* the longest uptime of the model, in days
MaxDays == 1

\* elapsed times in seconds: every number of days up to MaxDays with the
\* first and the last hour, minute and second of their ranges
Elapsed ==
    {((dd * 24 + hh) * 60 + mm) * 60 + ss :
        dd \in 0 .. MaxDays, hh \in {0, 23}, mm \in {0, 59}, ss \in {0, 1, 59}}

NextUptime ==
    \/ Tick
    \/ \E p \in Procs, d \in Elapsed : UptimeHandler(p, EmptyForm, d)
    \/ \E p \in Procs : RootHandler(p, EmptyForm)

SpecUptime == Init /\ [][NextUptime]_vars

-----------------------------------------------------------------------------
(* Contextual handlers: contextualHandlerFunc.ServeHTTP clones the shared    *)
(* mgoSession, runs the handler with a store on the clone and closes the    *)
(* clone when the handler returns.                                          *)

\* the shared mgoSession handed out in place of a clone
SessionShared(cl) ==
    [id |-> 1, clones |-> IF cl = <<>> THEN <<0>> ELSE cl]

\* mgoSession.Clone(): a new session, open
SessionClone(cl) == [id |-> Len(cl) + 1, clones |-> Append(cl, 0)]

\* a goroutine in ServeHTTP that holds its clone and has not called h yet
Cloned == [Idle EXCEPT !.pc = "cloned"]

\* ms := mgoSession.Clone(); defer ms.Close(); db := ms.DB(mgoDatabase)
CtxClone(p) ==
    /\ req[p].pc \in {"idle", "done"}
    /\ ms[p] = 0
    /\ served < MaxRequests
    /\ LET c == SessionClone(clones)
       IN  /\ clones' = c.clones
           /\ ms' = [ms EXCEPT ![p] = c.id]
    /\ req' = [req EXCEPT ![p] = Cloned]
    /\ UNCHANGED <<installations, sessions, now, objectIdCounter, refreshing, served>>

\* the deferred ms.Close(), when h has returned
CtxClose(p) ==
    /\ req[p].pc = "done"
    /\ ms[p] # 0
    /\ clones' = [clones EXCEPT ![ms[p]] = @ + 1]
    /\ ms' = [ms EXCEPT ![p] = 0]
    /\ UNCHANGED <<installations, sessions, now, objectIdCounter, req, refreshing, served>>

\* h(w, r, &Context{&MongoStore{db}}) for the handlers of session/new and
\* session/close
NextContext ==
    \/ Tick
    \/ \E p \in Procs : CtxClone(p)
    \/ \E p \in Procs, form \in NewSessionForms :
           req[p].pc = "cloned" /\ NewSessionHandler(p, form)
    \/ \E p \in Procs : InsertSessionReply(p, FALSE)
    \/ \E p \in Procs, form \in SessionForms :
           req[p].pc = "cloned" /\ CloseSessionHandler(p, form)
    \/ \E p \in Procs : CloseSessionReply(p, FALSE)
    \/ \E p \in Procs : CtxClose(p)

SpecContext == Init /\ [][NextContext]_vars

-----------------------------------------------------------------------------
(* The storage gateway on its own: a caller of the Storage interface        *)
(* applies its four operations to installations and sessions of its choice. *)

\* the sessions a caller hands to InsertSession: any id, any machine
GivenSessions ==
    {NewSession(id, "a@b", m, "1.0", now) : id \in {10, 11}, m \in MachineIds}

\* the call of store operation op on session s having returned err
Called(op, s, err) ==
    [pc |-> "done", endpoint |-> op,
     form |-> [jid |-> s.jid, machine_id |-> s.machine_id,
               xmppvox_version |-> s.xmppvox_ver],
     id |-> s.id, t |-> s.created_at, openAtStart |-> FALSE, status |-> 0,
     body |-> <<>>, err |-> err, calls |-> 1]

\* store.InsertSession(s); fail says that the store cannot be reached
CallInsertSession(p, s, fail) ==
    LET res == IF fail THEN [err |-> "other", coll |-> sessions]
                       ELSE InsertSession(sessions, s)
    IN  /\ Accept
        /\ sessions' = res.coll
        /\ req' = [req EXCEPT ![p] = Called("InsertSession", s, res.err)]
        /\ UNCHANGED <<installations, now, objectIdCounter, refreshing>>

\* store.CloseSession(s), s carrying the id and the machine id
CallCloseSession(p, s, fail) ==
    LET res == IF fail THEN [err |-> "other", coll |-> sessions]
                       ELSE CloseSession(sessions, s.id, s.machine_id, now)
    IN  /\ Accept
        /\ sessions' = res.coll
        /\ req' = [req EXCEPT ![p] = Called("CloseSession", s, res.err)]
        /\ UNCHANGED <<installations, now, objectIdCounter, refreshing>>

\* store.PingSession(s), s carrying the id and the machine id
CallPingSession(p, s, fail) ==
    LET res == IF fail THEN [err |-> "other", coll |-> sessions]
                       ELSE PingSession(sessions, s.id, s.machine_id, now)
    IN  /\ Accept
        /\ sessions' = res.coll
        /\ req' = [req EXCEPT ![p] = Called("PingSession", s, res.err)]
        /\ UNCHANGED <<installations, now, objectIdCounter, refreshing>>

\* the installations a caller hands to InsertInstallation
GivenInstallations ==
    {NewInstallation(m, v, [isNil |-> TRUE, kv |-> {}], [isNil |-> TRUE, kv |-> {}], now) :
        m \in MachineIds, v \in {"1.0", "1.1"}}

\* store.InsertInstallation(i)
CallInsertInstallation(p, i, fail) ==
    LET res == IF fail THEN [err |-> "other", coll |-> installations]
                       ELSE InsertInstallation(installations, i)
    IN  /\ Accept
        /\ installations' = res.coll
        /\ req' = [req EXCEPT ![p] =
               [pc |-> "done", endpoint |-> "InsertInstallation",
                form |-> [machine_id |-> i.machine_id,
                          xmppvox_version |-> i.xmppvox_ver,
                          dosvox_info |-> "null", machine_info |-> "null"],
                id |-> 0, t |-> i.created_at, openAtStart |-> FALSE,
                status |-> 0, body |-> <<>>, err |-> res.err, calls |-> 1]]
        /\ UNCHANGED <<sessions, now, objectIdCounter, refreshing>>

NextStore ==
    \/ Tick
    \/ \E p \in SeqProcs, s \in GivenSessions, fail \in BOOLEAN : CallInsertSession(p, s, fail)
    \/ \E p \in SeqProcs, s \in GivenSessions, fail \in BOOLEAN : CallCloseSession(p, s, fail)
    \/ \E p \in SeqProcs, s \in GivenSessions, fail \in BOOLEAN : CallPingSession(p, s, fail)
    \/ \E p \in SeqProcs, i \in GivenInstallations, fail \in BOOLEAN : CallInsertInstallation(p, i, fail)

SpecStore == Init /\ [][NextStore]_vars

-----------------------------------------------------------------------------
(* Vocabulary of the properties *)

\* this step is the handler of goroutine p accepting a request
HandlerStep(p) == req[p].pc \notin {"store", "spawn"} /\ req'[p] # req[p]

\* this step is the store call of p's request to endpoint e returning
ReplyStep(p, e) ==
    req[p].pc = "store" /\ req[p].endpoint = e /\ req'[p].pc \in {"done", "spawn"}

\* goroutine p holds the response to a request to endpoint e
Responded(p, e) == req[p].pc = "done" /\ req[p].endpoint = e

\* session id is stored
Stored(id) == id \in DOMAIN sessions

\* session id is stored and closed
Closed(id) == Stored(id) /\ sessions[id].closed_at # ZeroTime

\* session id is stored and open
Open(id) == Stored(id) /\ sessions[id].closed_at = ZeroTime

\* session id is stored and was created with machine id m
OwnedBy(id, m) == Stored(id) /\ sessions[id].machine_id = m

\* the session a close or ping form is about, 0 when its session_id is no id
Target(form) ==
    IF "session_id" \in DOMAIN form /\ form["session_id"] \in
           {HexLower[i] : i \in 1 .. Len(HexLower)} \cup {HexUpper[i] : i \in 1 .. Len(HexUpper)}
    THEN 9 + (CHOOSE i \in 1 .. Len(HexLower) :
                  form["session_id"] \in {HexLower[i], HexUpper[i]})
    ELSE 0

-----------------------------------------------------------------------------
(* Properties of the session endpoints *)

\* C1: once a session is closed by a session/close answered 200 (which stores
\* the closing time the request read), every later session/close for that
\* session id is answered 400, and the stored closed_at keeps the value the
\* first close wrote.
C1_CloseTwice ==
    [][\A p \in Procs :
         LET id == Target(req[p].form) IN
         /\ (ReplyStep(p, "session/close") /\ req'[p].status = StatusOK)
                => (sessions'[id].closed_at = req[p].t /\ req[p].t # ZeroTime)
         /\ (ReplyStep(p, "session/close") /\ Closed(id))
                => (/\ req'[p].status = StatusBadRequest
                    /\ sessions'[id].closed_at = sessions[id].closed_at)
      ]_vars

\* a session closed at an earlier time, and its owner's later close answered 400
C1_Witness ==
    \E p \in Procs :
        /\ Responded(p, "session/close")
        /\ req[p].status = StatusBadRequest
        /\ Closed(Target(req[p].form))
        /\ OwnedBy(Target(req[p].form), req[p].form["machine_id"])
        /\ sessions[Target(req[p].form)].closed_at < now

\* C2: a session/close or session/ping whose machine_id is not the one the
\* session was created with is answered 400 and changes nothing in the
\* session (closed_at and last_ping included): an open session stays open,
\* and its owner's close is still answered 200.
C2_Ownership ==
    [][\A p \in Procs :
         LET id == Target(req[p].form) IN
         /\ ( /\ ReplyStep(p, "session/close") \/ ReplyStep(p, "session/ping")
              /\ Stored(id)
              /\ ~OwnedBy(id, req[p].form["machine_id"]) )
                => (/\ req'[p].status = StatusBadRequest
                    /\ sessions'[id] = sessions[id])
         /\ ( /\ ReplyStep(p, "session/close")
              /\ Open(id)
              /\ OwnedBy(id, req[p].form["machine_id"]) )
                => req'[p].status = StatusOK
      ]_vars

\* a close by another machine was answered 400, and afterwards the owner's
\* close of the same session was answered 200
C2_Witness ==
    \E p, q \in Procs :
        /\ Responded(p, "session/close")
        /\ req[p].status = StatusBadRequest
        /\ Stored(Target(req[p].form))
        /\ ~OwnedBy(Target(req[p].form), req[p].form["machine_id"])
        /\ Responded(q, "session/close")
        /\ req[q].status = StatusOK
        /\ Target(req[q].form) = Target(req[p].form)
        /\ OwnedBy(Target(req[q].form), req[q].form["machine_id"])

\* C3: the lifecycle is OPEN -> CLOSED, CLOSED being terminal: in every step
\* a stored session stays stored, a set closed_at keeps its value, and
\* closed_at changes only from unset to set.
C3_ClosedIsTerminal ==
    [][\A id \in DOMAIN sessions :
         /\ id \in DOMAIN sessions'
         /\ Closed(id) => sessions'[id].closed_at = sessions[id].closed_at
         /\ sessions'[id].closed_at # sessions[id].closed_at
                => (sessions[id].closed_at = ZeroTime /\ sessions'[id].closed_at # ZeroTime)
      ]_vars

\* a session closed at an earlier time, after which its owner's ping was refused
C3_Witness ==
    \E p \in Procs :
        /\ Responded(p, "session/ping")
        /\ req[p].status = StatusBadRequest
        /\ Closed(Target(req[p].form))
        /\ OwnedBy(Target(req[p].form), req[p].form["machine_id"])
        /\ sessions[Target(req[p].form)].closed_at < now
        /\ served = MaxRequests

\* C4: a session/close of an open session with the machine id that created it
\* is answered 200, the body being the submitted session_id (and a newline),
\* and leaves the session's closed_at set.
C4_CloseOpen ==
    [][\A p \in Procs :
         LET id == Target(req[p].form) IN
         ( /\ ReplyStep(p, "session/close")
           /\ Open(id)
           /\ OwnedBy(id, req[p].form["machine_id"]) )
             => (/\ req'[p].status = StatusOK
                 /\ req'[p].body = <<req[p].form["session_id"], "\n">>
                 /\ sessions'[id].closed_at # ZeroTime)
      ]_vars

\* the close of session 0x0a submitted as "0A" was answered 200 with body "0A"
C4_Witness ==
    \E p \in Procs :
        /\ Responded(p, "session/close")
        /\ req[p].status = StatusOK
        /\ req[p].form["session_id"] = "0A"
        /\ req[p].body = <<"0A", "\n">>
        /\ Closed(10)

\* C5: a session/ping of a closed session, even with the owner's machine id,
\* is answered 400 and leaves the stored last_ping as it was.
C5_PingClosed ==
    [][\A p \in Procs :
         LET id == Target(req[p].form) IN
         (ReplyStep(p, "session/ping") /\ Closed(id))
             => (/\ req'[p].status = StatusBadRequest
                 /\ sessions'[id].last_ping = sessions[id].last_ping)
      ]_vars

\* the owner's ping of a closed, never pinged session was answered 400
C5_Witness ==
    \E p \in Procs :
        /\ Responded(p, "session/ping")
        /\ req[p].status = StatusBadRequest
        /\ Closed(Target(req[p].form))
        /\ OwnedBy(Target(req[p].form), req[p].form["machine_id"])
        /\ sessions[Target(req[p].form)].last_ping = ZeroTime

\* C6: when requests are served one after the other, every session/ping of
\* an open session with the owner's machine id is answered 200 with the
\* submitted session_id as body, sets last_ping, leaves the session open, and
\* stores a last_ping that is not earlier than the one it replaces.
C6_PingInSequence ==
    [][\A p \in Procs :
         LET id == Target(req[p].form) IN
         ( /\ ReplyStep(p, "session/ping")
           /\ Open(id)
           /\ OwnedBy(id, req[p].form["machine_id"]) )
             => (/\ req'[p].status = StatusOK
                 /\ req'[p].body = <<req[p].form["session_id"], "\n">>
                 /\ sessions'[id].last_ping # ZeroTime
                 /\ sessions'[id].closed_at = ZeroTime
                 /\ sessions'[id].last_ping >= sessions[id].last_ping)
      ]_vars

\* after a first ping, the clock advanced and a later ping of the still open
\* session was answered 200: the stored last_ping is the later time
C6_Witness ==
    \E p \in Procs :
        /\ Responded(p, "session/ping")
        /\ req[p].status = StatusOK
        /\ Open(Target(req[p].form))
        /\ sessions[Target(req[p].form)].last_ping > sessions[Target(req[p].form)].created_at
        /\ objectIdCounter = 1
        /\ served = MaxRequests

\* C7: close is one atomic conditional update.  A session/close with the
\* owner's machine id is answered 200 exactly when the session is open at the
\* moment the store applies it, and 400 otherwise; closed_at changes only in
\* such a step answered 200, from unset to the time that request read.  So of
\* two concurrent closes of an open session by its owner the first to reach
\* the store is answered 200, the other 400, and closed_at is written once.
C7_ConcurrentClose ==
    [][/\ \A p \in Procs :
            LET id == Target(req[p].form) IN
            ( /\ ReplyStep(p, "session/close")
              /\ OwnedBy(id, req[p].form["machine_id"]) )
                => /\ req'[p].status = (IF Open(id) THEN StatusOK ELSE StatusBadRequest)
                   /\ req'[p].calls = 1
       /\ \A id \in DOMAIN sessions :
            sessions'[id].closed_at # sessions[id].closed_at
                => /\ sessions[id].closed_at = ZeroTime
                   /\ \E p \in Procs :
                          /\ ReplyStep(p, "session/close")
                          /\ Target(req[p].form) = id
                          /\ req'[p].status = StatusOK
                          /\ sessions'[id].closed_at = req[p].t
      ]_vars

\* two closes by the owner were issued while the session was open; one has
\* been answered 200 and the other has not reached the store yet
C7_Witness ==
    \E p, q \in Procs :
        /\ Responded(p, "session/close")
        /\ req[p].status = StatusOK
        /\ req[q].pc = "store"
        /\ req[q].endpoint = "session/close"
        /\ req[q].openAtStart
        /\ Target(req[q].form) = Target(req[p].form)
        /\ req[q].form["machine_id"] = req[p].form["machine_id"]
        /\ Closed(Target(req[p].form))

\* the form has exactly the fields in names, all non-empty
ExactlyNonEmpty(form, names) ==
    DOMAIN form = names /\ \A k \in names : form[k] # ""

\* C8: a session/new with exactly the fields jid, machine_id and
\* xmppvox_version, all non-empty, reaches the store and is answered 200; the
\* body is the hex text of a session id no stored session had, and the
\* session stored under that id has the submitted jid, machine id and
\* version, created_at set, closed_at and last_ping unset.
C8_NewSession ==
    [][\A p \in Procs :
         /\ ( /\ HandlerStep(p)
              /\ req'[p].endpoint = "session/new"
              /\ ExactlyNonEmpty(req'[p].form, {"jid", "machine_id", "xmppvox_version"}) )
                => req'[p].pc = "store"
         /\ ReplyStep(p, "session/new")
                => /\ req'[p].status = StatusOK
                   /\ \E id \in ObjectIds :
                          /\ req'[p].body = <<HexLower[id - 9], "\n">>
                          /\ id \notin DOMAIN sessions
                          /\ id \in DOMAIN sessions'
                          /\ sessions'[id].id = id
                          /\ sessions'[id].jid = req[p].form["jid"]
                          /\ sessions'[id].machine_id = req[p].form["machine_id"]
                          /\ sessions'[id].xmppvox_ver = req[p].form["xmppvox_version"]
                          /\ sessions'[id].created_at # ZeroTime
                          /\ sessions'[id].closed_at = ZeroTime
                          /\ sessions'[id].last_ping = ZeroTime
      ]_vars

\* a second session/new was answered 200 with another id than the first, and
\* both sessions are stored
C8_Witness ==
    \E p \in Procs :
        /\ Responded(p, "session/new")
        /\ req[p].status = StatusOK
        /\ req[p].body = <<"0b", "\n">>
        /\ {10, 11} \subseteq DOMAIN sessions
        /\ sessions[11].machine_id = req[p].form["machine_id"]
        /\ sessions[11].jid = "a@b"

-----------------------------------------------------------------------------
(* Properties of the installation endpoint *)

\* C9: an installation/new for a machine id that is already stored is
\* answered 400 and leaves the stored installation as the first submission
\* made it, also when version or info differ; the first one is answered 200.
\* There is one installation per machine id: the one stored under it.
C9_DuplicateInstallation ==
    [][\A p \in Procs :
         LET m == req[p].form["machine_id"] IN
         /\ (ReplyStep(p, "installation/new") /\ m \in DOMAIN installations)
                => /\ req'[p].status = StatusBadRequest
                   /\ installations' = installations
         /\ (ReplyStep(p, "installation/new") /\ m \notin DOMAIN installations)
                => /\ req'[p].status = StatusOK
                   /\ m \in DOMAIN installations'
                   /\ installations'[m].machine_id = m
      ]_vars

\* a second registration of a machine id, with another version and another
\* dosvox_info than the stored ones, was answered 400
C9_Witness ==
    \E p \in Procs :
        /\ Responded(p, "installation/new")
        /\ req[p].status = StatusBadRequest
        /\ req[p].calls = 1
        /\ req[p].form["machine_id"] \in DOMAIN installations
        /\ installations[req[p].form["machine_id"]].xmppvox_ver # req[p].form["xmppvox_version"]
        /\ installations[req[p].form["machine_id"]].dosvox_info.isNil
        /\ req[p].form["dosvox_info"] # "null"

\* the map a JSON text of the model denotes
InfoOf(text) ==
    IF text = "null" THEN [isNil |-> TRUE, kv |-> {}]
    ELSE IF text = "{}" THEN [isNil |-> FALSE, kv |-> {}]
    ELSE IF text = "{\"k\":\"v\"}" THEN [isNil |-> FALSE, kv |-> {<<"k", "v">>}]
    ELSE [isNil |-> FALSE, kv |-> {<<"k", "w">>}]

\* the texts of the model that are JSON objects of strings
ObjectTexts == {"{}", "{\"k\":\"v\"}", "{\"k\":\"w\"}"}

\* C10: an installation/new with exactly the four required fields, all
\* non-empty, both info fields JSON objects of strings, reaches the store;
\* when its machine id is not stored it is answered 200 with the machine id
\* as body, and the installation stored under that machine id has the
\* submitted version, dosvox_info and machine_info and a set created_at.
C10_NewInstallation ==
    [][\A p \in Procs :
         /\ ( /\ HandlerStep(p)
              /\ req'[p].endpoint = "installation/new"
              /\ ExactlyNonEmpty(req'[p].form,
                     {"machine_id", "xmppvox_version", "dosvox_info", "machine_info"})
              /\ req'[p].form["dosvox_info"] \in ObjectTexts
              /\ req'[p].form["machine_info"] \in ObjectTexts )
                => req'[p].pc = "store"
         /\ ( /\ ReplyStep(p, "installation/new")
              /\ req[p].form["machine_id"] \notin DOMAIN installations )
                => LET m == req[p].form["machine_id"] IN
                   /\ req'[p].status = StatusOK
                   /\ req'[p].body = <<m, "\n">>
                   /\ m \in DOMAIN installations'
                   /\ installations'[m].machine_id = m
                   /\ installations'[m].xmppvox_ver = req[p].form["xmppvox_version"]
                   /\ installations'[m].dosvox_info = InfoOf(req[p].form["dosvox_info"])
                   /\ installations'[m].machine_info = InfoOf(req[p].form["machine_info"])
                   /\ installations'[m].created_at # ZeroTime
      ]_vars

\* a registration with two different JSON objects was answered 200 with the
\* machine id as body, and the installation is stored with both
C10_Witness ==
    \E p \in Procs :
        /\ Responded(p, "installation/new")
        /\ req[p].status = StatusOK
        /\ req[p].body = <<"M2", "\n">>
        /\ req[p].form["dosvox_info"] = "{\"k\":\"w\"}"
        /\ "M2" \in DOMAIN installations
        /\ installations["M2"].xmppvox_ver = "1.1"
        /\ installations["M2"].dosvox_info = [isNil |-> FALSE, kv |-> {<<"k", "w">>}]
        /\ installations["M2"].machine_info = [isNil |-> FALSE, kv |-> {<<"k", "v">>}]

-----------------------------------------------------------------------------
(* Properties of validation and error handling *)

\* the four mutating endpoints
Endpoints == {"installation/new", "session/new", "session/close", "session/ping"}

\* the fields an endpoint requires
Required(e) ==
    CASE e = "installation/new" ->
             {"machine_id", "xmppvox_version", "dosvox_info", "machine_info"}
      [] e = "session/new" -> {"jid", "machine_id", "xmppvox_version"}
      [] OTHER -> {"session_id", "machine_id"}

\* C11: on each of the four mutating endpoints, a request whose field names
\* are not exactly the required ones (one missing, one extra, or one replaced
\* by an unknown one), or one of whose required fields is empty, is answered
\* 400 by the handler itself, and the numbers of stored installations and
\* sessions stay as they were.
C11_FieldSet ==
    [][\A p \in Procs :
         ( /\ HandlerStep(p)
           /\ req'[p].endpoint \in Endpoints
           /\ ~ExactlyNonEmpty(req'[p].form, Required(req'[p].endpoint)) )
             => (/\ req'[p].pc = "done"
                 /\ req'[p].status = StatusBadRequest
                 /\ Cardinality(DOMAIN installations') = Cardinality(DOMAIN installations)
                 /\ Cardinality(DOMAIN sessions') = Cardinality(DOMAIN sessions))
      ]_vars

\* with one installation and one session stored, a session/new with three
\* fields, one of them unknown, was answered 400
C11_Witness ==
    \E p \in Procs :
        /\ Responded(p, "session/new")
        /\ req[p].status = StatusBadRequest
        /\ DOMAIN req[p].form = {"jid", "xmppvox_version", "extra_invalid_field"}
        /\ Cardinality(DOMAIN installations) = 1
        /\ Cardinality(DOMAIN sessions) = 1

\* the request fails validation: wrong field set, empty field, a session_id
\* that is no ObjectId, or an info field that is neither null nor a JSON object
\* of strings
Invalid(e, form) ==
    IF ~ExactlyNonEmpty(form, Required(e)) THEN TRUE
    ELSE IF e \in {"session/close", "session/ping"} THEN Target(form) = 0
    ELSE IF e = "installation/new"
    THEN \/ form["dosvox_info"] \notin ObjectTexts \cup {"null"}
         \/ form["machine_info"] \notin ObjectTexts \cup {"null"}
    ELSE FALSE

\* C12: fail fast.  A request that fails validation is answered 400 by the
\* handler step itself, without a store call and with both collections
\* untouched; every store operation that is issued belongs to a request that
\* passed validation; and a request answered 400 for validation has made no
\* store call.
C12_FailFast ==
    [][\A p \in Procs :
         /\ ( /\ HandlerStep(p)
              /\ req'[p].endpoint \in Endpoints
              /\ Invalid(req'[p].endpoint, req'[p].form) )
                => (/\ req'[p].pc = "done"
                    /\ req'[p].status = StatusBadRequest
                    /\ req'[p].calls = 0
                    /\ installations' = installations
                    /\ sessions' = sessions)
         /\ (\E e \in Endpoints : ReplyStep(p, e))
                => ~Invalid(req[p].endpoint, req[p].form)
         /\ ( /\ req'[p].pc = "done"
              /\ req'[p].endpoint \in Endpoints
              /\ Invalid(req'[p].endpoint, req'[p].form) )
                => (req'[p].calls = 0 /\ req'[p].status = StatusBadRequest)
      ]_vars

\* with an installation stored, a registration with the four required fields
\* whose machine_info is a JSON array was answered 400 without a store call
C12_Witness ==
    \E p \in Procs :
        /\ Responded(p, "installation/new")
        /\ req[p].status = StatusBadRequest
        /\ req[p].calls = 0
        /\ ExactlyNonEmpty(req[p].form, Required("installation/new"))
        /\ req[p].form["machine_info"] = "[1]"
        /\ Cardinality(DOMAIN installations) = 1

\* C13: the response of session/close and of session/ping to a well-formed
\* request that does not match an open session of that machine is a function
\* of the request alone: status 400 and the same message with the submitted
\* session_id, whether no session has that id, the session belongs to another
\* machine id, or the session is closed.  So the three store states give the
\* same response to the same session_id and machine_id.
C13_SameRefusal ==
    [][\A p \in Procs :
         LET id == Target(req[p].form)
             m  == req[p].form["machine_id"]
         IN  ( /\ ReplyStep(p, "session/close") \/ ReplyStep(p, "session/ping")
               /\ \/ ~Stored(id)
                  \/ Stored(id) /\ ~OwnedBy(id, m)
                  \/ Closed(id) )
                 => (/\ req'[p].status = StatusBadRequest
                     /\ req'[p].body = <<"Session does not exist or is already closed",
                                         req[p].form["session_id"], "\n">>
                     /\ sessions' = sessions)
      ]_vars

\* the same session_id and machine_id were refused twice with the same status
\* and body, a close and a ping, and the session is stored under another owner
C13_Witness ==
    \E p, q \in Procs :
        /\ Responded(p, "session/close")
        /\ Responded(q, "session/ping")
        /\ req[p].form = req[q].form
        /\ req[p].status = StatusBadRequest
        /\ req[q].status = req[p].status
        /\ req[q].body = req[p].body
        /\ Stored(Target(req[p].form))
        /\ ~OwnedBy(Target(req[p].form), req[p].form["machine_id"])

\* C14: every response the service writes, whatever the method, the path,
\* the fields and the outcome of the store, has status 200, 400 or 500.
C14_StatusCodes ==
    \A p \in Procs :
        req[p].pc = "done"
            => req[p].status \in {StatusOK, StatusBadRequest, StatusInternalServerError}

\* this step is a store operation of goroutine p's request returning
StoreStep(p) == req[p].pc = "store" /\ req'[p] # req[p]

\* the errors an endpoint's store operation returns that are answered 400
Refusals(e) ==
    CASE e = "installation/new" -> {"dup"}
      [] e = "session/new" -> {}
      [] OTHER -> {"notfound"}

\* C15: when the store operation of a request returns an error that is not
\* the endpoint's refusal (duplicate key for installation/new, not found for
\* close and ping), the handler answers 500 and then starts one Refresh of
\* the storage session and returns: the operation is not issued again for
\* that request.
C15_StorageError ==
    [][\A p \in Procs :
         /\ ( /\ StoreStep(p)
              /\ req'[p].err \notin Refusals(req[p].endpoint) \cup {"nil"} )
                => (/\ req'[p].status = StatusInternalServerError
                    /\ req'[p].pc = "spawn"
                    /\ req'[p].calls = 1)
         /\ (req[p].pc = "spawn" /\ req'[p] # req[p])
                => (/\ req'[p] = [req[p] EXCEPT !.pc = "done"]
                    /\ refreshing' = refreshing + 1)
      ]_vars

\* the owner's close of an open session was answered 500 after one store
\* call, a Refresh is running, and the session is still open
C15_Witness ==
    \E p \in Procs :
        /\ Responded(p, "session/close")
        /\ req[p].status = StatusInternalServerError
        /\ req[p].calls = 1
        /\ refreshing = 1
        /\ Open(Target(req[p].form))
        /\ OwnedBy(Target(req[p].form), req[p].form["machine_id"])

\* the documents of collection c that differ in c2 or are missing from it,
\* and the documents c2 has in addition
Changed(c, c2) ==
    {k \in DOMAIN c : k \notin DOMAIN c2 \/ c2[k] # c[k]} \cup (DOMAIN c2 \ DOMAIN c)

\* C17: a request issues at most one store operation.  A request is answered
\* with no store call (validation failure, or a route without storage) or
\* with exactly one: a store operation is issued only for a request that has
\* issued none, it ends the request, and it is one round trip, which touches
\* one collection and at most one document in it.
C17_OneStoreCall ==
    [][\A p \in Procs :
         /\ req'[p].calls <= 1
         /\ StoreStep(p)
                => (/\ req[p].calls = 0
                    /\ req'[p].calls = 1
                    /\ req'[p].pc \in {"done", "spawn"}
                    /\ Cardinality(Changed(installations, installations'))
                           + Cardinality(Changed(sessions, sessions')) <= 1)
         /\ (HandlerStep(p) /\ req'[p].pc = "done") => req'[p].calls = 0
         /\ (req[p].pc = "spawn" /\ req'[p] # req[p])
                => (req'[p].pc = "done" /\ req'[p].calls = 1)
      ]_vars

\* a request was answered 500 after exactly one store call, with a session
\* stored by an earlier request
C17_Witness ==
    \E p \in Procs :
        /\ req[p].pc = "done"
        /\ req[p].status = StatusInternalServerError
        /\ req[p].calls = 1
        /\ req[p].endpoint = "session/ping"
        /\ Cardinality(DOMAIN sessions) = 1

\* C18: a stored installation is never changed or deleted: in every step of
\* the service, whatever the request and the route, each stored installation
\* stays stored with the same machine id, version, info maps and created_at.
C18_InstallationFrozen ==
    [][\A m \in DOMAIN installations :
         /\ m \in DOMAIN installations'
         /\ installations'[m] = installations[m]
      ]_vars

\* an installation stored at an earlier time, a session created since, and a
\* second registration of the machine id with another dosvox_info refused
C18_Witness ==
    \E p \in Procs :
        /\ Responded(p, "installation/new")
        /\ req[p].status = StatusBadRequest
        /\ req[p].calls = 1
        /\ req[p].form["machine_id"] \in DOMAIN installations
        /\ installations[req[p].form["machine_id"]].created_at < now
        /\ installations[req[p].form["machine_id"]].dosvox_info
               # InfoOf(req[p].form["dosvox_info"])
        /\ Cardinality(DOMAIN sessions) = 1

\* C19: no step deletes a session.  A session/close answered 200 changes
\* closed_at of the session it names and nothing else, a session/ping
\* answered 200 changes last_ping of the session it names and nothing else:
\* the other fields of that session, every other session and all
\* installations are as before.  No step changes id, jid, machine id, version
\* or created_at of a stored session.
C19_Frame ==
    [][/\ \A id \in DOMAIN sessions :
            /\ id \in DOMAIN sessions'
            /\ sessions'[id].id = sessions[id].id
            /\ sessions'[id].jid = sessions[id].jid
            /\ sessions'[id].machine_id = sessions[id].machine_id
            /\ sessions'[id].xmppvox_ver = sessions[id].xmppvox_ver
            /\ sessions'[id].created_at = sessions[id].created_at
       /\ \A p \in Procs :
            LET id == Target(req[p].form) IN
            /\ (StoreStep(p) /\ req[p].endpoint = "session/close" /\ req'[p].status = StatusOK)
                   => (/\ installations' = installations
                       /\ sessions'[id].closed_at # sessions[id].closed_at
                       /\ sessions' = [sessions EXCEPT ![id].closed_at = sessions'[id].closed_at])
            /\ (StoreStep(p) /\ req[p].endpoint = "session/ping" /\ req'[p].status = StatusOK)
                   => (/\ installations' = installations
                       /\ sessions'[id].last_ping # ZeroTime
                       /\ sessions' = [sessions EXCEPT ![id].last_ping = sessions'[id].last_ping])
      ]_vars

\* a session that was pinged was closed at a later time: closed_at is set and
\* last_ping is still the earlier time of the ping
C19_Witness ==
    \E p \in Procs :
        /\ Responded(p, "session/close")
        /\ req[p].status = StatusOK
        /\ Closed(Target(req[p].form))
        /\ sessions[Target(req[p].form)].last_ping # ZeroTime
        /\ sessions[Target(req[p].form)].last_ping < sessions[Target(req[p].form)].closed_at
        /\ Cardinality(DOMAIN sessions) = 1

\* C20: in every interleaving of concurrent session/ping and session/close
\* requests, last_ping of a session changes only in a step in which the
\* session is open, and the new value is not earlier than the one it replaces.
C20_LastPingAdvances ==
    [][\A id \in DOMAIN sessions :
         sessions'[id].last_ping # sessions[id].last_ping
             => (/\ sessions[id].closed_at = ZeroTime
                 /\ sessions'[id].last_ping >= sessions[id].last_ping)
      ]_vars

-----------------------------------------------------------------------------
(* Properties of the storage gateway *)

\* this step is a call of store operation op by p
CallStep(p, op) == req'[p].endpoint = op /\ served' = served + 1

\* the session handed to the store operation p called in this step
Given(p) ==
    [id          |-> req'[p].id,
     created_at  |-> req'[p].t,
     closed_at   |-> ZeroTime,
     last_ping   |-> ZeroTime,
     jid         |-> req'[p].form["jid"],
     machine_id  |-> req'[p].form["machine_id"],
     xmppvox_ver |-> req'[p].form["xmppvox_version"]]

-----------------------------------------------------------------------------
(* Properties of the info fields, the uptime and the storage handles *)

\* the texts of the model that are JSON null or a JSON object of strings
StringMappings == {"null", "{}", "{\"k\":\"v\"}", "{\"k\":\"w\"}"}

\* C21: an installation/new with the four required fields, all non-empty, is
\* passed to the store when dosvox_info and machine_info are each JSON null or
\* a JSON object of strings; when either is no JSON or JSON of another shape,
\* it is answered 400 and no installation is stored.
C21_InfoShapes ==
    [][\A p \in Procs :
         ( /\ HandlerStep(p)
           /\ req'[p].endpoint = "installation/new"
           /\ ExactlyNonEmpty(req'[p].form, Required("installation/new")) )
             => IF /\ req'[p].form["dosvox_info"] \in StringMappings
                   /\ req'[p].form["machine_info"] \in StringMappings
                THEN req'[p].pc = "store"
                ELSE /\ req'[p].pc = "done"
                     /\ req'[p].status = StatusBadRequest
                     /\ installations' = installations
      ]_vars

\* the number a sequence of decimal digits denotes
RECURSIVE Value(_)
Value(digits) ==
    IF digits = <<>> THEN 0
    ELSE 10 * Value(SubSeq(digits, 1, Len(digits) - 1)) + digits[Len(digits)]

\* C22: the line of "/uptime" for an elapsed time of T whole seconds reads
\* {days}d{hours}h{minutes}m{seconds}s with
\* days*86400 + hours*3600 + minutes*60 + seconds = T, hours < 24,
\* minutes < 60 and seconds < 60, the last three printed with two digits.
C22_Uptime ==
    \A p \in Procs :
        Responded(p, "uptime") =>
            LET b       == req[p].body
                days    == Value(b[2])
                hours   == Value(b[4])
                minutes == Value(b[6])
                seconds == Value(b[8])
            IN  /\ req[p].status = StatusOK
                /\ <<b[1], b[3], b[5], b[7], b[9], b[10]>>
                       = <<"API uptime: ", "d", "h", "m", "s", "\n">>
                /\ days * 86400 + hours * 3600 + minutes * 60 + seconds = req[p].t
                /\ hours < 24 /\ minutes < 60 /\ seconds < 60
                /\ Len(b[4]) = 2 /\ Len(b[6]) = 2 /\ Len(b[8]) = 2

\* after one day, 23 hours, 59 minutes and one second the line reads
\* 1d23h59m01s
C22_Witness ==
    \E p \in Procs :
        /\ Responded(p, "uptime")
        /\ req[p].t = 86400 + 23 * 3600 + 59 * 60 + 1
        /\ req[p].body = <<"API uptime: ", <<1>>, "d", <<2, 3>>, "h",
                           <<5, 9>>, "m", <<0, 1>>, "s", "\n">>

\* goroutine p runs a step of its handler: the handler proper or its store call
InHandler(p) == req[p].pc \in {"cloned", "store"} /\ req'[p] # req[p]

\* C23: every request served through a contextual handler has its own clone
\* of the shared session: while its handler runs, the goroutine holds a clone
\* that is open and that no other goroutine holds.  A clone is closed once,
\* when its handler has returned: the open clones are exactly the ones
\* goroutines hold, no clone is closed twice, and when no request is in
\* flight no clone is open.
C23_OwnClone ==
    [][/\ \A p \in Procs :
            InHandler(p)
                => (/\ ms[p] \in DOMAIN clones
                    /\ clones[ms[p]] = 0
                    /\ \A q \in Procs \ {p} : ms[q] # ms[p])
       /\ \A i \in DOMAIN clones' :
            /\ clones'[i] <= 1
            /\ clones'[i] = 0 <=> (\E p \in Procs : ms'[p] = i)
       /\ (\A p \in Procs : ms'[p] = 0)
              => (\A i \in DOMAIN clones' : clones'[i] = 1)
      ]_vars

\* two requests are at their store calls with different clones, and the
\* clone of an earlier request is closed
C23_Witness ==
    /\ \A p \in Procs : req[p].pc = "store"
    /\ \E p, q \in Procs : ms[p] # 0 /\ ms[q] # 0 /\ ms[p] # ms[q]
    /\ \E i \in DOMAIN clones : clones[i] = 1

\* C24: the reconnect on a storage error is fire-and-forget.  The step in
\* which the failing store call returns writes the 500 response and starts no
\* Refresh yet; the next step of the handler starts the Refresh and returns
\* in that same step, the response as written; and the end of a Refresh,
\* whenever it comes, changes no request.  A response once written changes
\* only when its goroutine takes up another request.
C24_FireAndForget ==
    [][\A p \in Procs :
         /\ ( /\ StoreStep(p)
              /\ req'[p].err \notin Refusals(req[p].endpoint) \cup {"nil"} )
                => (/\ req'[p].status = StatusInternalServerError
                    /\ req'[p].body # <<>>
                    /\ req'[p].pc = "spawn"
                    /\ refreshing' = refreshing)
         /\ (req[p].pc = "spawn" /\ req'[p] # req[p])
                => (/\ refreshing' = refreshing + 1
                    /\ req'[p] = [req[p] EXCEPT !.pc = "done"])
         /\ refreshing' < refreshing => req'[p] = req[p]
         /\ ( \/ req'[p].status # req[p].status
              \/ req'[p].body # req[p].body )
                => (StoreStep(p) \/ HandlerStep(p))
      ]_vars

\* an installation/new request was answered 500 and its handler has returned
\* while the Refresh it started is still running; nothing was stored
C24_Witness ==
    \E p \in Procs :
        /\ Responded(p, "installation/new")
        /\ req[p].status = StatusInternalServerError
        /\ refreshing = 1
        /\ req[p].form["machine_id"] \notin DOMAIN installations

\* the installation a request in flight has submitted
Submission(r) ==
    [machine_id   |-> r.form["machine_id"],
     xmppvox_ver  |-> r.form["xmppvox_version"],
     dosvox_info  |-> InfoOf(r.form["dosvox_info"]),
     machine_info |-> InfoOf(r.form["machine_info"]),
     created_at   |-> r.t]

\* goroutines p and q serve installation/new requests for the same machine id
\* and p's insert is under way
Racing(p, q) ==
    /\ p # q
    /\ req[p].pc = "store"
    /\ req[p].endpoint = "installation/new"
    /\ req[q].endpoint = "installation/new"
    /\ req[q].form["machine_id"] = req[p].form["machine_id"]

\* C25: of two installation/new requests for the same fresh machine id that
\* run concurrently, the one whose insert the store applies first is
\* answered 200 and stores its submission, the other is left in flight; the
\* one whose insert comes second is answered 400 and leaves the stored
\* installation, the first one's submission, as it is.  There is one
\* installation with that machine id.
C25_ConcurrentInstall ==
    [][\A p, q \in Procs :
         LET m == req[p].form["machine_id"] IN
         /\ ( /\ Racing(p, q) /\ StoreStep(p)
              /\ req[q].pc = "store"
              /\ m \notin DOMAIN installations )
                => (/\ req'[p].status = StatusOK
                    /\ req'[q] = req[q]
                    /\ DOMAIN installations' = DOMAIN installations \cup {m}
                    /\ installations'[m] = Submission(req[p]))
         /\ ( /\ Racing(p, q) /\ StoreStep(p)
              /\ req[q].pc = "done" /\ req[q].status = StatusOK )
                => (/\ req'[p].status = StatusBadRequest
                    /\ installations' = installations
                    /\ m \in DOMAIN installations
                    /\ installations[m].xmppvox_ver = req[q].form["xmppvox_version"]
                    /\ installations[m].dosvox_info = InfoOf(req[q].form["dosvox_info"])
                    /\ installations[m].machine_info = InfoOf(req[q].form["machine_info"]))
      ]_vars

\* two requests for one fresh machine id overlap: the one that started later
\* was answered 200 and its submission is stored, while the one that started
\* earlier, with another version, still waits for its insert
C25_Witness ==
    \E p, q \in Procs :
        /\ Racing(q, p)
        /\ Responded(p, "installation/new") /\ req[p].status = StatusOK
        /\ req[q].form["xmppvox_version"] # req[p].form["xmppvox_version"]
        /\ installations[req[p].form["machine_id"]].xmppvox_ver = req[p].form["xmppvox_version"]
        /\ req[q].t < installations[req[p].form["machine_id"]].created_at
        /\ Cardinality(DOMAIN installations) = 1
        /\ served = 2

\* C26: in every stored session that has both timestamps set, last_ping is
\* not later than closed_at, however session/ping and session/close requests
\* interleave, each handler reading the clock before the store applies its
\* conditional update.
C26_PingBeforeClose ==
    \A id \in DOMAIN sessions :
        (sessions[id].closed_at # ZeroTime /\ sessions[id].last_ping # ZeroTime)
            => sessions[id].last_ping <= sessions[id].closed_at

\* the outcome of TestStore for the store operation p called in this step,
\* applied to the installations and sessions the step started from
TestStoreOutcome(p) ==
    LET op == req'[p].endpoint
        m  == req'[p].form["machine_id"]
    IN  CASE op = "InsertInstallation" ->
               LET res == TestStoreInsertInstallation(installations,
                              [machine_id   |-> m,
                               xmppvox_ver  |-> req'[p].form["xmppvox_version"],
                               dosvox_info  |-> InfoOf(req'[p].form["dosvox_info"]),
                               machine_info |-> InfoOf(req'[p].form["machine_info"]),
                               created_at   |-> req'[p].t])
               IN  [err |-> res.err, insts |-> res.coll, sess |-> sessions]
          [] op = "InsertSession" ->
               LET res == TestStoreInsertSession(sessions, Given(p))
               IN  [err |-> res.err, insts |-> installations, sess |-> res.coll]
          [] op = "CloseSession" ->
               LET res == TestStoreCloseSession(sessions, req'[p].id, m, now)
               IN  [err |-> res.err, insts |-> installations, sess |-> res.coll]
          [] OTHER ->
               LET res == TestStorePingSession(sessions, req'[p].id, m, now)
               IN  [err |-> res.err, insts |-> installations, sess |-> res.coll]

\* the four operations of Storage
StorageOps == {"InsertInstallation", "InsertSession", "CloseSession", "PingSession"}

\* C27: TestStore and MongoStore are interchangeable.  Along every sequence
\* of InsertInstallation, InsertSession, CloseSession and PingSession calls,
\* each call that reaches the live store returns the outcome class (success,
\* duplicate key, not found, other error) that TestStore returns for it on
\* the same installations and sessions, and leaves the installations and
\* sessions that TestStore leaves.
C27_Interchangeable ==
    [][\A p \in Procs, op \in StorageOps :
         (CallStep(p, op) /\ req'[p].err # "other")
             => (/\ TestStoreOutcome(p).err = req'[p].err
                 /\ TestStoreOutcome(p).insts = installations'
                 /\ TestStoreOutcome(p).sess = sessions')
      ]_vars

\* C28: no two stored sessions share an id, and the stored sessions are as
\* many as the session/new requests answered 200.  There is none at the
\* start; a session/new answered 200 adds one session, under the id it
\* carries, and no other step adds or removes one.
C28_SessionCount ==
    /\ sessions = <<>>
    /\ [][LET news == {p \in Procs : /\ ReplyStep(p, "session/new")
                                    /\ req'[p].status = StatusOK}
          IN  /\ DOMAIN sessions \subseteq DOMAIN sessions'
              /\ Cardinality(DOMAIN sessions')
                     = Cardinality(DOMAIN sessions) + Cardinality(news)
              /\ \A k \in DOMAIN sessions' : sessions'[k].id = k
        ]_vars

\* three requests were served: two session/new answered 200, whose sessions
\* are the two stored, and a session/new answered 500
C28_Witness ==
    /\ served = 3
    /\ Cardinality(DOMAIN sessions) = 2
    /\ \E p \in Procs :
           /\ Responded(p, "session/new")
           /\ req[p].status = StatusInternalServerError

\* the paths of the requests that lie under the prefix "/1"
V1Paths ==
    {"/1/installation/new", "/1/session/new", "/1/session/close",
     "/1/session/ping", "/1/session/delete"}

\* the path of an endpoint
PathOf(e) ==
    CASE e = "installation/new" -> "/1/installation/new"
      [] e = "session/new" -> "/1/session/new"
      [] e = "session/close" -> "/1/session/close"
      [] OTHER -> "/1/session/ping"

\* C29: routing.  A request reaches one of the four functional handlers only
\* when it is a POST to that handler's path under "/1"; a request with
\* another method, or whose path lacks the prefix, is answered with no
\* functional handler run and no store operation; "/" and "/uptime" answer
\* 200 with their own text, issue no store operation and leave installations
\* and sessions as they are.
C29_Routing ==
    [][served' # served =>
         \A p \in {q \in Procs : req'[q].pc # "idle"} :
         \A r \in {x \in Requests : x.form = req'[p].form} :
         \A d \in RouterElapsed :
             ServeHTTP(p, r.method, r.path, r.form, d)
                 => /\ req'[p].endpoint \in Endpoints
                        => (r.method = "POST" /\ r.path = PathOf(req'[p].endpoint))
                    /\ (r.method # "POST" \/ r.path \notin V1Paths)
                        => (/\ req'[p].endpoint \notin Endpoints
                            /\ req'[p].pc = "done"
                            /\ req'[p].calls = 0
                            /\ installations' = installations
                            /\ sessions' = sessions)
                    /\ r.path \in {"/", "/uptime"}
                        => (/\ req'[p].status = StatusOK
                            /\ req'[p].body[1] = (IF r.path = "/" THEN "API OK"
                                                                  ELSE "API uptime: ")
                            /\ req'[p].calls = 0
                            /\ installations' = installations
                            /\ sessions' = sessions)
      ]_vars

\* with a session stored by a POST to "/1/session/new", a POST of a
\* well-formed session/new form to "/session/new" was answered by the router
\* itself, and no second session was stored
C29_Witness ==
    \E p \in Procs :
        /\ req[p].pc = "done"
        /\ req[p].endpoint = "notfound"
        /\ "jid" \in DOMAIN req[p].form
        /\ req[p].status = StatusNotFound
        /\ Cardinality(DOMAIN sessions) = 1

====
